---------------------------- MODULE Spec2Model ----------------------------
(***************************************************************************)
(* tag-guard: the Engine registry (specs, tags, roles) and the validator   *)
(* check_tags / check_tag_changes, modelled from src/src/engine.rs and     *)
(* src/src/tag/spec.rs.                                                    *)
(*                                                                         *)
(* Tag and Role are names (strings); a Vec is a sequence; a HashSet is a   *)
(* set; the HashMap specs is a function whose DOMAIN is its key set.       *)
(* A Result<T> is a record [err, val]: err is Success or an Error value.   *)
(***************************************************************************)
EXTENDS Naturals, Sequences, FiniteSets, TLC

VARIABLES specs, tags, roles, call, result

vars == <<specs, tags, roles, call, result>>

(***************************************************************************)
(* Bounds of the model.                                                    *)
(***************************************************************************)
\* most names handed to one query: Len(tags) + Len(added_tags) +
\* Len(removed_tags) + Len(roles)
MaxQuery == 4

\* longest list handed to count_tag and check_tag
MaxList == 3

\* most names handed to one check_tag_changes query of OrderSpec
MaxOrder == 3

\* most tag records in one Configuration
MaxRecords == 2

\* most names handed to one query of LookupSpec
MaxArg == 1

\* names used as proper tags, and the name used as a group
TagNames == {"a", "b"}
GroupNames == {"g"}
Names == TagNames \cup GroupNames
RoleNames == {"r", "s"}

\* all sequences over S of length at most n
RECURSIVE SeqsUpTo(_, _)
SeqsUpTo(S, n) ==
    IF n = 0 THEN {<<>>}
    ELSE LET shorter == SeqsUpTo(S, n - 1)
         IN  shorter \cup {Append(s, x) : s \in {t \in shorter : Len(t) = n - 1}, x \in S}

(***************************************************************************)
(* Vec helpers: contains, retain.                                          *)
(***************************************************************************)
Contains(list, x) == \E i \in 1..Len(list) : list[i] = x

Retain(list, x) == SelectSeq(list, LAMBDA y : y # x)

(***************************************************************************)
(* error.rs: the Error enum.  Unused payload slots hold "" / <<>>.         *)
(***************************************************************************)
Error(kind, tag, other, list) ==
    [kind |-> kind, tag |-> tag, other |-> other, list |-> list]

Success == Error("Ok", "", "", <<>>)
RequiresTags(tag, list) == Error("RequiresTags", tag, "", list)
IncompatibleTags(tag, other) == Error("IncompatibleTags", tag, other, <<>>)
MissingTag(tag) == Error("MissingTag", tag, "", <<>>)
MissingRole(role) == Error("MissingRole", role, "", <<>>)
MissingRoles(list) == Error("MissingRoles", "", "", list)
OtherBothAddedRemoved ==
    Error("Other", "", "Tag present in both added_tags and removed_tags", <<>>)

\* Result<T>: Ok(v) and Err(e)
OkVal(v) == [err |-> Success, val |-> v]
ErrVal(e) == [err |-> e, val |-> 0]
IsOk(res) == res.err = Success

(***************************************************************************)
(* tag/spec.rs: TemplateTagSpec, TagSpec, from_template.                   *)
(***************************************************************************)
TemplateTagSpec(required, conflicting, needed, groups) ==
    [required_tags |-> required, conflicting_tags |-> conflicting,
     needed_roles |-> needed, groups |-> groups]

from_template(tag, template) ==
    [tag |-> tag,
     required_tags |-> template.required_tags,
     conflicting_tags |-> template.conflicting_tags,
     needed_roles |-> template.needed_roles,
     groups |-> template.groups]

\* the rule shapes handed to add_tag for the tag named n
OtherTag(n) == IF n = "a" THEN "b" ELSE "a"

Templates(n) ==
    { TemplateTagSpec(<<>>, <<>>, <<>>, <<>>),        \* TemplateTagSpec::default()
      TemplateTagSpec(<<>>, <<"g">>, <<>>, <<"g">>),  \* one-at-a-time group member
      TemplateTagSpec(<<"g">>, <<>>, <<>>, <<>>),     \* requires a member of the group
      TemplateTagSpec(<<>>, <<OtherTag(n)>>, <<"r">>, <<>>) \* role-gated, conflicts with the other tag
    }

(***************************************************************************)
(* engine.rs: the Engine value read by the queries.                        *)
(***************************************************************************)
Engine == [specs |-> specs, tags |-> tags, roles |-> roles]

get_spec(e, tag) ==
    IF tag \in DOMAIN e.specs THEN OkVal(e.specs[tag]) ELSE ErrVal(MissingTag(tag))

is_group(e, tag) == tag \in e.tags /\ tag \notin DOMAIN e.specs

\* the loop of count_tag from position i on, with `count` accumulated so far
RECURSIVE count_tag_from(_, _, _, _, _)
count_tag_from(e, check, list, i, count) ==
    IF i > Len(list) THEN OkVal(count)
    ELSE IF list[i] = check THEN count_tag_from(e, check, list, i + 1, count + 1)
    ELSE IF ~IsOk(get_spec(e, list[i])) THEN ErrVal(get_spec(e, list[i]).err)
    ELSE IF Contains(get_spec(e, list[i]).val.groups, check)
         THEN count_tag_from(e, check, list, i + 1, count + 1)
         ELSE count_tag_from(e, check, list, i + 1, count)

\* faulty variant of count_tag: group membership is not counted
count_tag_names_only(e, check, list) ==
    OkVal(Cardinality({i \in 1..Len(list) : list[i] = check}))

count_tag(e, check, list) == count_tag_from(e, check, list, 1, 0)

\* faulty variant of check_tag: plain membership whatever `check` is
check_tag_membership_only(e, check, list) == OkVal(Contains(list, check))

check_tag(e, check, list) ==
    IF is_group(e, check)
    THEN LET c == count_tag(e, check, list)
         IN  IF IsOk(c) THEN OkVal(c.val > 0) ELSE ErrVal(c.err)
    ELSE OkVal(Contains(list, check))

(***************************************************************************)
(* tag/spec.rs: TagSpec::check_roles and TagSpec::check_tag_changes.       *)
(***************************************************************************)
check_roles(spec, held) ==
    IF \E i \in 1..Len(held) : Contains(spec.needed_roles, held[i])
    THEN Success
    ELSE MissingRoles(spec.needed_roles)

\* "Check for tags that are both added and removed"
both_added_and_removed(added, removed) ==
    \E i \in 1..Len(added) : Contains(removed, added[i])

\* "Check if this tag was changed": the role gate
role_gate(spec, added, removed, held) ==
    IF Contains(added, spec.tag) \/ Contains(removed, spec.tag)
    THEN check_roles(spec, held)
    ELSE Success

\* the local closure count_tags
count_tags(e, tag, current, added, removed) ==
    IF Contains(removed, tag) THEN OkVal(0)
    ELSE LET c1 == count_tag(e, tag, current)
             c2 == count_tag(e, tag, added)
         IN  IF ~IsOk(c1) THEN ErrVal(c1.err)
             ELSE IF ~IsOk(c2) THEN ErrVal(c2.err)
             ELSE OkVal(c1.val + c2.val)

\* one pass of the requirements loop: the check of required_tags[i]
requirement_at(e, spec, current, added, removed, i) ==
    LET c == count_tags(e, spec.required_tags[i], current, added, removed)
    IN  IF ~IsOk(c) THEN c.err
        ELSE IF c.val = 0 THEN RequiresTags(spec.tag, spec.required_tags)
        ELSE Success

\* "Ensure all requirements are met": the loop from position i on
RECURSIVE requirements_from(_, _, _, _, _, _)
requirements_from(e, spec, current, added, removed, i) ==
    IF i > Len(spec.required_tags) THEN Success
    ELSE LET r == requirement_at(e, spec, current, added, removed, i)
         IN  IF r # Success THEN r
             ELSE requirements_from(e, spec, current, added, removed, i + 1)

\* faulty variant of conflict_limit: no tolerance for the tag's own group
conflict_limit_none(e, spec, conflicts, current, added) == OkVal(0)

\* the tolerated count `limit` for one entry of conflicting_tags
conflict_limit(e, spec, conflicts, current, added) ==
    IF is_group(e, conflicts)
    THEN LET m1 == check_tag(e, spec.tag, current)
             m2 == check_tag(e, spec.tag, added)
         IN  IF ~IsOk(m1) THEN ErrVal(m1.err)
             ELSE IF m1.val THEN OkVal(1)
             ELSE IF ~IsOk(m2) THEN ErrVal(m2.err)
             ELSE OkVal(IF m2.val THEN 1 ELSE 0)
    ELSE OkVal(0)

\* one pass of the conflicts loop: the check of conflicting_tags[i]
conflict_at(e, spec, current, added, removed, i) ==
    LET conflicts == spec.conflicting_tags[i]
        limit == conflict_limit(e, spec, conflicts, current, added)
        c == count_tags(e, conflicts, current, added, removed)
    IN  IF ~IsOk(limit) THEN limit.err
        ELSE IF ~IsOk(c) THEN c.err
        ELSE IF c.val > limit.val THEN IncompatibleTags(spec.tag, conflicts)
        ELSE Success

\* "Ensure no conflicts are present": the loop from position i on
RECURSIVE conflicts_from(_, _, _, _, _, _)
conflicts_from(e, spec, current, added, removed, i) ==
    IF i > Len(spec.conflicting_tags) THEN Success
    ELSE LET r == conflict_at(e, spec, current, added, removed, i)
         IN  IF r # Success THEN r
             ELSE conflicts_from(e, spec, current, added, removed, i + 1)

\* faulty variant of TagSpec_check_tag_changes: the role gate is checked
\* after the requirements and the conflicts
TagSpec_check_tag_changes_gate_last(e, spec, current, added, removed, held) ==
    IF both_added_and_removed(added, removed) THEN OtherBothAddedRemoved
    ELSE IF requirements_from(e, spec, current, added, removed, 1) # Success
         THEN requirements_from(e, spec, current, added, removed, 1)
    ELSE IF conflicts_from(e, spec, current, added, removed, 1) # Success
         THEN conflicts_from(e, spec, current, added, removed, 1)
    ELSE role_gate(spec, added, removed, held)

TagSpec_check_tag_changes(e, spec, current, added, removed, held) ==
    IF both_added_and_removed(added, removed) THEN OtherBothAddedRemoved
    ELSE IF role_gate(spec, added, removed, held) # Success
         THEN role_gate(spec, added, removed, held)
    ELSE IF requirements_from(e, spec, current, added, removed, 1) # Success
         THEN requirements_from(e, spec, current, added, removed, 1)
    ELSE conflicts_from(e, spec, current, added, removed, 1)

\* faulty variant of TagSpec_check_tags: only the requirements are checked
TagSpec_check_tags_requirements_only(e, spec, current) ==
    requirements_from(e, spec, current, <<>>, <<>>, 1)

TagSpec_check_tags(e, spec, current) ==
    TagSpec_check_tag_changes(e, spec, current, <<>>, <<>>, <<>>)

(***************************************************************************)
(* engine.rs: Engine::check_tags and Engine::check_tag_changes.            *)
(***************************************************************************)
RECURSIVE check_tags_from(_, _, _)
check_tags_from(e, current, i) ==
    IF i > Len(current) THEN Success
    ELSE LET s == get_spec(e, current[i])
         IN  IF ~IsOk(s) THEN s.err
             ELSE IF TagSpec_check_tags(e, s.val, current) # Success
                  THEN TagSpec_check_tags(e, s.val, current)
             ELSE check_tags_from(e, current, i + 1)

check_tags(e, current) == check_tags_from(e, current, 1)

\* "Check for unregistered roles": positions of held roles the engine lacks
unregistered_roles(e, held) == {i \in 1..Len(held) : held[i] \notin e.roles}

first_unregistered_role(e, held) ==
    held[CHOOSE i \in unregistered_roles(e, held) :
            \A j \in unregistered_roles(e, held) : i <= j]

\* faulty variant of check_tag_changes_from: the loop returns after its
\* first pass, whatever that pass found
check_tag_changes_first_only(e, current, added, removed, held, i) ==
    IF i > Len(current) THEN Success
    ELSE LET s == get_spec(e, current[i])
         IN  IF ~IsOk(s) THEN s.err
             ELSE TagSpec_check_tag_changes(e, s.val, current, added, removed, held)

\* the loop over `tags` from position i on
RECURSIVE check_tag_changes_from(_, _, _, _, _, _)
check_tag_changes_from(e, current, added, removed, held, i) ==
    IF i > Len(current) THEN Success
    ELSE LET s == get_spec(e, current[i])
             r == TagSpec_check_tag_changes(e, s.val, current, added, removed, held)
         IN  IF ~IsOk(s) THEN s.err
             ELSE IF r # Success THEN r
             ELSE check_tag_changes_from(e, current, added, removed, held, i + 1)

\* faulty variant of check_tag_changes: the two preflight checks swapped
check_tag_changes_swapped(e, current, added, removed, held) ==
    IF both_added_and_removed(added, removed) THEN OtherBothAddedRemoved
    ELSE IF unregistered_roles(e, held) # {}
    THEN MissingRole(first_unregistered_role(e, held))
    ELSE check_tag_changes_from(e, current, added, removed, held, 1)

check_tag_changes(e, current, added, removed, held) ==
    IF unregistered_roles(e, held) # {}
    THEN MissingRole(first_unregistered_role(e, held))
    ELSE IF both_added_and_removed(added, removed) THEN OtherBothAddedRemoved
    ELSE check_tag_changes_from(e, current, added, removed, held, 1)

(***************************************************************************)
(* The state machine: the registry operations of engine.rs and the two     *)
(* validation queries.  `call` is the query in progress (op = "idle" when  *)
(* none), `result` what it returned.                                       *)
(***************************************************************************)
Idle == [op |-> "idle", tags |-> <<>>, added |-> <<>>, removed |-> <<>>, held |-> <<>>]

\* Engine::default()
Init ==
    /\ specs = <<>>
    /\ tags = {}
    /\ roles = {}
    /\ call = Idle
    /\ result = Success

\* the map `m` with key k bound to v (HashMap::insert)
Insert(m, k, v) == [x \in DOMAIN m \cup {k} |-> IF x = k THEN v ELSE m[x]]

\* the registry operations as functions from the Engine value before the
\* call to the Engine value after it
Engine_add_tag(e, name, template) ==
    [e EXCEPT !.specs = Insert(@, name, from_template(name, template)),
              !.tags = @ \cup {name}]

\* faulty variant of delete_tag: conflicting_tags is not pruned
Engine_delete_tag_required_only(e, tag) ==
    [e EXCEPT !.specs = [x \in DOMAIN e.specs \ {tag} |->
                            [e.specs[x] EXCEPT !.required_tags = Retain(@, tag)]],
              !.tags = @ \ {tag}]

Engine_delete_tag(e, tag) ==
    [e EXCEPT !.specs = [x \in DOMAIN e.specs \ {tag} |->
                            [e.specs[x] EXCEPT !.required_tags = Retain(@, tag),
                                               !.conflicting_tags = Retain(@, tag)]],
              !.tags = @ \ {tag}]

Engine_add_group(e, name) == [e EXCEPT !.tags = @ \cup {name}]

Engine_delete_group(e, group) ==
    [e EXCEPT !.tags = @ \ {group},
              !.specs = [x \in DOMAIN e.specs |->
                            [e.specs[x] EXCEPT !.groups = Retain(@, group)]]]

Engine_add_role(e, name) == [e EXCEPT !.roles = @ \cup {name}]

Engine_delete_role(e, role) ==
    [e EXCEPT !.roles = @ \ {role},
              !.specs = [x \in DOMAIN e.specs |->
                            [e.specs[x] EXCEPT !.needed_roles = Retain(@, role)]]]

\* the Engine becomes e
becomes(e) ==
    /\ specs' = e.specs
    /\ tags' = e.tags
    /\ roles' = e.roles

add_tag(name, template) ==
    /\ becomes(Engine_add_tag(Engine, name, template))
    /\ UNCHANGED <<call, result>>

delete_tag(tag) ==
    /\ becomes(Engine_delete_tag(Engine, tag))
    /\ UNCHANGED <<call, result>>

add_group(name) ==
    /\ becomes(Engine_add_group(Engine, name))
    /\ UNCHANGED <<call, result>>

delete_group(group) ==
    /\ becomes(Engine_delete_group(Engine, group))
    /\ UNCHANGED <<call, result>>

add_role(name) ==
    /\ becomes(Engine_add_role(Engine, name))
    /\ UNCHANGED <<call, result>>

delete_role(role) ==
    /\ becomes(Engine_delete_role(Engine, role))
    /\ UNCHANGED <<call, result>>

\* the query engine.check_tags(current)
query_check_tags(current) ==
    /\ call' = [op |-> "check_tags", tags |-> current,
                added |-> <<>>, removed |-> <<>>, held |-> <<>>]
    /\ result' = check_tags(Engine, current)
    /\ UNCHANGED <<specs, tags, roles>>

\* the query engine.check_tag_changes(current, added, removed, held)
query_check_tag_changes(current, added, removed, held) ==
    /\ call' = [op |-> "check_tag_changes", tags |-> current,
                added |-> added, removed |-> removed, held |-> held]
    /\ result' = check_tag_changes(Engine, current, added, removed, held)
    /\ UNCHANGED <<specs, tags, roles>>

\* the tag lists and role lists of each length bound
TagLists == [n \in 0..MaxQuery |-> SeqsUpTo(Names, n)]
HeldLists == [n \in 0..MaxQuery |-> SeqsUpTo(RoleNames, n)]

\* the (tags, added_tags, removed_tags, roles) arguments tried
Queries ==
    UNION { UNION { UNION {
        {[tags |-> t, added |-> a, removed |-> r, held |-> h] :
            h \in HeldLists[MaxQuery - Len(t) - Len(a) - Len(r)]} :
          r \in TagLists[MaxQuery - Len(t) - Len(a)]} :
        a \in TagLists[MaxQuery - Len(t)]} :
      t \in TagLists[MaxQuery]}

\* The steps.  A registry operation or a query starts only when no call is
\* in progress; its arguments are drawn from the sets above.
AddTag ==
    /\ call.op = "idle"
    /\ \E n \in TagNames : \E t \in Templates(n) : add_tag(n, t)

DeleteTag ==
    /\ call.op = "idle"
    /\ \E n \in TagNames : delete_tag(n)

AddGroup ==
    /\ call.op = "idle"
    /\ \E n \in GroupNames : add_group(n)

DeleteGroup ==
    /\ call.op = "idle"
    /\ \E n \in GroupNames : delete_group(n)

AddRole ==
    /\ call.op = "idle"
    /\ \E n \in RoleNames : add_role(n)

DeleteRole ==
    /\ call.op = "idle"
    /\ \E n \in RoleNames : delete_role(n)

CheckTags ==
    /\ call.op = "idle"
    /\ \E current \in TagLists[MaxQuery] : query_check_tags(current)

CheckTagChanges ==
    /\ call.op = "idle"
    /\ \E q \in Queries : query_check_tag_changes(q.tags, q.added, q.removed, q.held)

\* the caller takes the Result; the engine is ready for the next call
Return ==
    /\ call.op # "idle"
    /\ call' = Idle
    /\ result' = Success
    /\ UNCHANGED <<specs, tags, roles>>

Next ==
    \/ AddTag
    \/ DeleteTag
    \/ AddGroup
    \/ DeleteGroup
    \/ AddRole
    \/ DeleteRole
    \/ CheckTags
    \/ CheckTagChanges
    \/ Return

Spec == Init /\ [][Next]_vars

(***************************************************************************)
(* The registry on its own: the six registry operations of engine.rs       *)
(* called with arbitrary names.  `call` records the operation just made    *)
(* and its argument (a tag or group name in tags, a role name in held).    *)
(***************************************************************************)
\* the TemplateTagSpec values handed to add_tag: lists of several names, so
\* that a prune leaves other entries behind
RegistryTemplates ==
    { TemplateTagSpec(<<>>, <<>>, <<>>, <<>>),
      TemplateTagSpec(<<"b", "g", "a">>, <<"g", "b">>, <<>>, <<>>),
      TemplateTagSpec(<<>>, <<>>, <<"s", "r">>, <<"g", "a">>) }

made(op, name) == [Idle EXCEPT !.op = op, !.tags = <<name>>]

made_role(op, name) == [Idle EXCEPT !.op = op, !.held = <<name>>]

RegistryAddTag ==
    \E n \in TagNames : \E t \in RegistryTemplates :
        /\ becomes(Engine_add_tag(Engine, n, t))
        /\ call' = made("add_tag", n)
        /\ result' = Success

RegistryDeleteTag ==
    \E n \in Names :
        /\ becomes(Engine_delete_tag(Engine, n))
        /\ call' = made("delete_tag", n)
        /\ result' = Success

RegistryAddGroup ==
    \E n \in Names :
        /\ becomes(Engine_add_group(Engine, n))
        /\ call' = made("add_group", n)
        /\ result' = Success

RegistryDeleteGroup ==
    \E n \in Names :
        /\ becomes(Engine_delete_group(Engine, n))
        /\ call' = made("delete_group", n)
        /\ result' = Success

RegistryAddRole ==
    \E n \in RoleNames :
        /\ becomes(Engine_add_role(Engine, n))
        /\ call' = made_role("add_role", n)
        /\ result' = Success

RegistryDeleteRole ==
    \E n \in RoleNames :
        /\ becomes(Engine_delete_role(Engine, n))
        /\ call' = made_role("delete_role", n)
        /\ result' = Success

RegistryNext ==
    \/ RegistryAddTag
    \/ RegistryDeleteTag
    \/ RegistryAddGroup
    \/ RegistryDeleteGroup
    \/ RegistryAddRole
    \/ RegistryDeleteRole

RegistrySpec == Init /\ [][RegistryNext]_vars

(***************************************************************************)
(* The primitives count_tag and check_tag on their own: the registry       *)
(* operations on tags and groups with arbitrary names, and calls of the    *)
(* two primitives.  `call` records the call made (check, list), `result`   *)
(* the Result it returned.                                                 *)
(***************************************************************************)
Lists == SeqsUpTo(Names, MaxList)

\* no call of a primitive is in progress
Ready == call.op \notin {"count_tag", "check_tag"}

CountTag ==
    /\ Ready
    /\ \E check \in Names : \E list \in Lists :
          /\ call' = [op |-> "count_tag", check |-> check, list |-> list]
          /\ result' = count_tag(Engine, check, list)
          /\ UNCHANGED <<specs, tags, roles>>

CheckTag ==
    /\ Ready
    /\ \E check \in Names : \E list \in Lists :
          /\ call' = [op |-> "check_tag", check |-> check, list |-> list]
          /\ result' = check_tag(Engine, check, list)
          /\ UNCHANGED <<specs, tags, roles>>

PrimitiveNext ==
    \/ Ready /\ RegistryAddTag
    \/ Ready /\ RegistryDeleteTag
    \/ Ready /\ RegistryAddGroup
    \/ Ready /\ RegistryDeleteGroup
    \/ CountTag
    \/ CheckTag
    \/ ~Ready /\ Return

PrimitiveSpec == Init /\ [][PrimitiveNext]_vars

(***************************************************************************)
(* The validator on registries whose specs carry several rules at once:    *)
(* the registry operations with the rule shapes below and the query        *)
(* check_tag_changes with at most MaxOrder names.                          *)
(***************************************************************************)
\* the rule shapes handed to add_tag for the tag named n: a one-at-a-time
\* group member, and a tag with two requirements, two conflicts and a
\* needed role
OrderTemplates(n) ==
    { TemplateTagSpec(<<>>, <<"g">>, <<>>, <<"g">>),
      TemplateTagSpec(<<"g", OtherTag(n)>>, <<OtherTag(n), "g">>, <<"r">>, <<>>) }

OrderTagLists == [n \in 0..MaxOrder |-> SeqsUpTo(Names, n)]
OrderHeldLists == [n \in 0..MaxOrder |-> SeqsUpTo(RoleNames, n)]

\* the (tags, added_tags, removed_tags, roles) arguments tried
OrderQueries ==
    UNION { UNION { UNION {
        {[tags |-> t, added |-> a, removed |-> r, held |-> h] :
            h \in OrderHeldLists[MaxOrder - Len(t) - Len(a) - Len(r)]} :
          r \in OrderTagLists[MaxOrder - Len(t) - Len(a)]} :
        a \in OrderTagLists[MaxOrder - Len(t)]} :
      t \in OrderTagLists[MaxOrder]}

OrderAddTag ==
    /\ call.op = "idle"
    /\ \E n \in TagNames : \E t \in OrderTemplates(n) : add_tag(n, t)

OrderCheckTagChanges ==
    /\ call.op = "idle"
    /\ \E q \in OrderQueries :
          query_check_tag_changes(q.tags, q.added, q.removed, q.held)

OrderNext ==
    \/ OrderAddTag
    \/ DeleteTag
    \/ AddGroup
    \/ DeleteGroup
    \/ AddRole
    \/ DeleteRole
    \/ OrderCheckTagChanges
    \/ Return

OrderSpec == Init /\ [][OrderNext]_vars

(***************************************************************************)
(* load.rs: Configuration and TagConfig.  An Option is a sequence of no    *)
(* element (None) or one (Some(v)).                                        *)
(***************************************************************************)
None == <<>>
Some(v) == <<v>>

\* Option<Vec<_>>::unwrap_or_else(Vec::new)
unwrap_or_new(option) == IF option = None THEN <<>> ELSE option[1]

TagConfig(name, groups, needed, requires, conflicts_with) ==
    [name |-> name, groups |-> groups, roles |-> needed,
     requires |-> requires, conflicts_with |-> conflicts_with]

Configuration(needed, configs) == [roles |-> needed, tags |-> configs]

(***************************************************************************)
(* engine.rs: the lookups by name, and the errors they report.             *)
(***************************************************************************)
NoSuchTag(name) == Error("NoSuchTag", name, "", <<>>)
NoSuchRole(name) == Error("NoSuchRole", name, "", <<>>)

get_spec_mut(e, tag) ==
    IF tag \in DOMAIN e.specs THEN OkVal(e.specs[tag]) ELSE ErrVal(MissingTag(tag))

get_tag(e, name) ==
    IF name \in e.tags THEN OkVal(name) ELSE ErrVal(NoSuchTag(name))

get_role(e, name) ==
    IF name \in e.roles THEN OkVal(name) ELSE ErrVal(NoSuchRole(name))

(***************************************************************************)
(* load.rs: Configuration::apply_roles and Configuration::apply_tags.      *)
(* Both work from a snapshot (extant_roles, extant_tags) of the registry   *)
(* taken on entry.  The deletions of one loop commute, so the iteration    *)
(* order of the HashSet does not show in the outcome.                      *)
(***************************************************************************)
\* "Remove old roles": delete_role for every role of the set `old`
RECURSIVE remove_old_roles(_, _)
remove_old_roles(e, old) ==
    IF old = {} THEN e
    ELSE LET extant_role == CHOOSE r \in old : TRUE
         IN  remove_old_roles(Engine_delete_role(e, extant_role), old \ {extant_role})

\* "Add new roles": the loop from position i on
RECURSIVE add_new_roles(_, _, _, _)
add_new_roles(e, needed, extant_roles, i) ==
    IF i > Len(needed) THEN e
    ELSE IF needed[i] \notin extant_roles
         THEN add_new_roles(Engine_add_role(e, needed[i]), needed, extant_roles, i + 1)
         ELSE add_new_roles(e, needed, extant_roles, i + 1)

apply_roles(needed, e) ==
    LET extant_roles == e.roles
        old == {r \in extant_roles : ~Contains(needed, r)}
    IN  add_new_roles(remove_old_roles(e, old), needed, extant_roles, 1)

\* "Remove old tags": delete_tag for every name of the set `old`
RECURSIVE remove_old_tags(_, _)
remove_old_tags(e, old) ==
    IF old = {} THEN e
    ELSE LET extant_tag == CHOOSE t \in old : TRUE
         IN  remove_old_tags(Engine_delete_tag(e, extant_tag), old \ {extant_tag})

\* "Add new tags": the loop from position i on
RECURSIVE add_new_tags(_, _, _, _)
add_new_tags(e, configs, extant_tags, i) ==
    IF i > Len(configs) THEN e
    ELSE IF configs[i].name \notin extant_tags
         THEN add_new_tags(
                  Engine_add_tag(e, configs[i].name, TemplateTagSpec(<<>>, <<>>, <<>>, <<>>)),
                  configs, extant_tags, i + 1)
         ELSE add_new_tags(e, configs, extant_tags, i + 1)

apply_tags(configs, e) ==
    LET extant_tags == e.tags
        old == {t \in extant_tags : ~\E i \in 1..Len(configs) : configs[i].name = t}
    IN  add_new_tags(remove_old_tags(e, old), configs, extant_tags, 1)

(***************************************************************************)
(* load.rs: Configuration::update_tags.  Each step yields the Engine it    *)
(* leaves behind and the error it stopped with (Success when none).        *)
(***************************************************************************)
Outcome(e, err) == [engine |-> e, err |-> err]

\* the loops "for name in requires / conflicts_with": get_tag of each name
RECURSIVE resolve_tags(_, _, _, _)
resolve_tags(e, names, i, resolved) ==
    IF i > Len(names) THEN OkVal(resolved)
    ELSE LET tag == get_tag(e, names[i])
         IN  IF ~IsOk(tag) THEN ErrVal(tag.err)
             ELSE resolve_tags(e, names, i + 1, Append(resolved, tag.val))

\* the loop "for name in groups": get_tag, or add_group when there is none
RECURSIVE resolve_groups(_, _, _, _)
resolve_groups(e, names, i, new_groups) ==
    IF i > Len(names) THEN [engine |-> e, val |-> new_groups]
    ELSE IF IsOk(get_tag(e, names[i]))
         THEN resolve_groups(e, names, i + 1, Append(new_groups, get_tag(e, names[i]).val))
         ELSE resolve_groups(Engine_add_group(e, names[i]), names, i + 1,
                             Append(new_groups, names[i]))

\* the loop "for name in roles": get_role of each name
RECURSIVE resolve_roles(_, _, _, _)
resolve_roles(e, names, i, needed_roles) ==
    IF i > Len(names) THEN OkVal(needed_roles)
    ELSE LET role == get_role(e, names[i])
         IN  IF ~IsOk(role) THEN ErrVal(role.err)
             ELSE resolve_roles(e, names, i + 1, Append(needed_roles, role.val))

\* "Update required_tags"
update_required_tags(e, current_tag, requires) ==
    LET required_tags == resolve_tags(e, unwrap_or_new(requires), 1, <<>>)
    IN  IF ~IsOk(required_tags) THEN Outcome(e, required_tags.err)
        ELSE IF ~IsOk(get_spec_mut(e, current_tag))
             THEN Outcome(e, get_spec_mut(e, current_tag).err)
        ELSE Outcome([e EXCEPT !.specs[current_tag].required_tags = required_tags.val],
                     Success)

\* "Update conflicting_tags"
update_conflicting_tags(e, current_tag, conflicts_with) ==
    LET conflicting_tags == resolve_tags(e, unwrap_or_new(conflicts_with), 1, <<>>)
    IN  IF ~IsOk(conflicting_tags) THEN Outcome(e, conflicting_tags.err)
        ELSE IF ~IsOk(get_spec_mut(e, current_tag))
             THEN Outcome(e, get_spec_mut(e, current_tag).err)
        ELSE Outcome([e EXCEPT !.specs[current_tag].conflicting_tags = conflicting_tags.val],
                     Success)

\* "Update groups"
update_groups(e, current_tag, groups) ==
    LET new_groups == resolve_groups(e, unwrap_or_new(groups), 1, <<>>)
    IN  IF ~IsOk(get_spec_mut(new_groups.engine, current_tag))
        THEN Outcome(new_groups.engine, get_spec_mut(new_groups.engine, current_tag).err)
        ELSE Outcome([new_groups.engine EXCEPT !.specs[current_tag].groups = new_groups.val],
                     Success)

\* "Update roles"
update_roles(e, current_tag, needed) ==
    LET needed_roles == resolve_roles(e, unwrap_or_new(needed), 1, <<>>)
    IN  IF ~IsOk(needed_roles) THEN Outcome(e, needed_roles.err)
        ELSE IF ~IsOk(get_spec_mut(e, current_tag))
             THEN Outcome(e, get_spec_mut(e, current_tag).err)
        ELSE Outcome([e EXCEPT !.specs[current_tag].needed_roles = needed_roles.val],
                     Success)

\* one pass of the loop "for config in configs"
update_tag(e, config) ==
    LET current_tag == get_tag(e, config.name)
        required == update_required_tags(e, current_tag.val, config.requires)
        conflicting == update_conflicting_tags(required.engine, current_tag.val,
                                               config.conflicts_with)
        grouped == update_groups(conflicting.engine, current_tag.val, config.groups)
    IN  IF ~IsOk(current_tag) THEN Outcome(e, current_tag.err)
        ELSE IF required.err # Success THEN required
        ELSE IF conflicting.err # Success THEN conflicting
        ELSE IF grouped.err # Success THEN grouped
        ELSE update_roles(grouped.engine, current_tag.val, config.roles)

\* the loop from position i on
RECURSIVE update_tags_from(_, _, _)
update_tags_from(configs, e, i) ==
    IF i > Len(configs) THEN Outcome(e, Success)
    ELSE LET updated == update_tag(e, configs[i])
         IN  IF updated.err # Success THEN updated
             ELSE update_tags_from(configs, updated.engine, i + 1)

update_tags(configs, e) == update_tags_from(configs, e, 1)

\* Configuration::apply: the Engine it leaves behind, and Success or the
\* error on which the expect of update_tags panics
apply(config, e) ==
    update_tags(config.tags, apply_tags(config.tags, apply_roles(config.roles, e)))

(***************************************************************************)
(* The reconciler: the registry operations called with arbitrary names,    *)
(* Configuration::apply, and the lookups and queries that can fail.        *)
(* `call` records the call made, `result` what it returned: the error of   *)
(* apply, the Result of a lookup.                                          *)
(***************************************************************************)
\* the records written for the tag named n: every field omitted; a member of
\* group g that conflicts with its own group; a role-gated member of group
\* g; a tag that requires the group and the other tag
TagConfigs(n) ==
    { TagConfig(n, None, None, None, None),
      TagConfig(n, Some(<<"g">>), None, None, Some(<<"g">>)),
      TagConfig(n, Some(<<"g">>), Some(<<"r">>), Some(<<>>), None),
      TagConfig(n, None, None, Some(<<"g", OtherTag(n)>>), Some(<<OtherTag(n)>>)) }

\* the configurations applied: at most MaxRecords tag records
Configurations ==
    {Configuration(needed, configs) :
        needed \in {<<>>, <<"s", "r">>},
        configs \in SeqsUpTo(UNION {TagConfigs(n) : n \in TagNames}, MaxRecords)}

\* the rule shapes handed to add_tag: no rule, and a requirement of the
\* group (the reconciler writes the other lists itself)
ApplyTemplates ==
    { TemplateTagSpec(<<>>, <<>>, <<>>, <<>>),
      TemplateTagSpec(<<"g">>, <<>>, <<>>, <<>>) }

ApplyAddTag ==
    /\ call.op = "idle"
    /\ \E n \in TagNames : \E t \in ApplyTemplates : add_tag(n, t)

ApplyDeleteTag ==
    /\ call.op = "idle"
    /\ \E n \in Names : delete_tag(n)

ApplyAddGroup ==
    /\ call.op = "idle"
    /\ \E n \in Names : add_group(n)

ApplyDeleteGroup ==
    /\ call.op = "idle"
    /\ \E n \in Names : delete_group(n)

ApplyAddRole ==
    /\ call.op = "idle"
    /\ \E n \in RoleNames : add_role(n)

ApplyDeleteRole ==
    /\ call.op = "idle"
    /\ \E n \in RoleNames : delete_role(n)

Apply ==
    /\ call.op = "idle"
    /\ \E config \in Configurations :
          LET applied == apply(config, Engine)
          IN  /\ becomes(applied.engine)
              /\ call' = [op |-> "apply", config |-> config]
              /\ result' = applied.err

ApplyNext ==
    \/ ApplyAddTag
    \/ ApplyDeleteTag
    \/ ApplyAddGroup
    \/ ApplyDeleteGroup
    \/ ApplyAddRole
    \/ ApplyDeleteRole
    \/ Apply
    \/ Return

ApplySpec == Init /\ [][ApplyNext]_vars

(***************************************************************************)
(* The operations that can fail: the lookups get_spec, get_spec_mut,       *)
(* get_tag and get_role, the primitives and the two validation queries     *)
(* with at most MaxArg names, and Configuration::apply of one record.      *)
(* `call` records the call made, `result` the Result or error it returned. *)
(***************************************************************************)
\* faulty variant of Engine_get_spec_mut: a missing key is entered with an
\* empty spec before the error is reported
Engine_get_spec_mut_inserting(e, tag) ==
    IF tag \in DOMAIN e.specs THEN e
    ELSE [e EXCEPT !.specs =
             Insert(@, tag, from_template(tag, TemplateTagSpec(<<>>, <<>>, <<>>, <<>>)))]

\* the Engine after get_spec_mut(tag), the one lookup that takes &mut self:
\* HashMap::get_mut changes no entry
Engine_get_spec_mut(e, tag) == e

ArgLists == [n \in 0..MaxArg |-> SeqsUpTo(Names, n)]
ArgHeldLists == [n \in 0..MaxArg |-> SeqsUpTo(RoleNames, n)]

\* the (tags, added_tags, removed_tags, roles) arguments tried
ArgQueries ==
    UNION { UNION { UNION {
        {[tags |-> t, added |-> a, removed |-> r, held |-> h] :
            h \in ArgHeldLists[MaxArg - Len(t) - Len(a) - Len(r)]} :
          r \in ArgLists[MaxArg - Len(t) - Len(a)]} :
        a \in ArgLists[MaxArg - Len(t)]} :
      t \in ArgLists[MaxArg]}

\* the configurations of one tag record
Records ==
    {Configuration(needed, <<config>>) :
        needed \in {<<>>, <<"s", "r">>},
        config \in UNION {TagConfigs(n) : n \in TagNames}}

GetSpec ==
    /\ call.op = "idle"
    /\ \E n \in Names :
          /\ call' = made("get_spec", n)
          /\ result' = get_spec(Engine, n)
          /\ UNCHANGED <<specs, tags, roles>>

GetSpecMut ==
    /\ call.op = "idle"
    /\ \E n \in Names :
          /\ becomes(Engine_get_spec_mut(Engine, n))
          /\ call' = made("get_spec_mut", n)
          /\ result' = get_spec_mut(Engine, n)

GetTag ==
    /\ call.op = "idle"
    /\ \E n \in Names :
          /\ call' = made("get_tag", n)
          /\ result' = get_tag(Engine, n)
          /\ UNCHANGED <<specs, tags, roles>>

GetRole ==
    /\ call.op = "idle"
    /\ \E n \in RoleNames :
          /\ call' = made_role("get_role", n)
          /\ result' = get_role(Engine, n)
          /\ UNCHANGED <<specs, tags, roles>>

CountTagArg ==
    /\ call.op = "idle"
    /\ \E check \in Names : \E list \in ArgLists[MaxArg] :
          /\ call' = [op |-> "count_tag", check |-> check, list |-> list]
          /\ result' = count_tag(Engine, check, list)
          /\ UNCHANGED <<specs, tags, roles>>

CheckTagArg ==
    /\ call.op = "idle"
    /\ \E check \in Names : \E list \in ArgLists[MaxArg] :
          /\ call' = [op |-> "check_tag", check |-> check, list |-> list]
          /\ result' = check_tag(Engine, check, list)
          /\ UNCHANGED <<specs, tags, roles>>

CheckTagsArg ==
    /\ call.op = "idle"
    /\ \E current \in ArgLists[MaxArg] : query_check_tags(current)

CheckTagChangesArg ==
    /\ call.op = "idle"
    /\ \E q \in ArgQueries :
          query_check_tag_changes(q.tags, q.added, q.removed, q.held)

ApplyRecord ==
    /\ call.op = "idle"
    /\ \E config \in Records :
          LET applied == apply(config, Engine)
          IN  /\ becomes(applied.engine)
              /\ call' = [op |-> "apply", config |-> config]
              /\ result' = applied.err

LookupNext ==
    \/ ApplyAddTag
    \/ ApplyDeleteTag
    \/ ApplyAddGroup
    \/ ApplyDeleteGroup
    \/ ApplyAddRole
    \/ ApplyDeleteRole
    \/ GetSpec
    \/ GetSpecMut
    \/ GetTag
    \/ GetRole
    \/ CountTagArg
    \/ CheckTagArg
    \/ CheckTagsArg
    \/ CheckTagChangesArg
    \/ ApplyRecord
    \/ Return

LookupSpec == Init /\ [][LookupNext]_vars

(***************************************************************************)
(* Vocabulary of the properties below.                                     *)
(***************************************************************************)
Range(list) == {list[i] : i \in 1..Len(list)}

\* the last call was check_tag_changes(T, A, R, H)
Called == call.op = "check_tag_changes"
T == call.tags
A == call.added
R == call.removed
H == call.held

HasSpec(t) == t \in DOMAIN specs

\* both preflight checks pass: every held role is registered, A and R are disjoint
PreflightPasses == Range(H) \subseteq roles /\ Range(A) \cap Range(R) = {}

\* `list` without the repeats of a name (first occurrence kept)
RECURSIVE Dedup(_)
Dedup(list) ==
    IF list = <<>> THEN <<>>
    ELSE LET front == Dedup(SubSeq(list, 1, Len(list) - 1))
             last == list[Len(list)]
         IN  IF Contains(front, last) THEN front ELSE Append(front, last)

\* the resulting tagset (T \cup A) \ R as a list: T's survivors, then the new tags
Resulting == Dedup(SelectSeq(T \o A, LAMBDA x : x \notin Range(R)))

\* the names effectively present after the change
Present == (Range(T) \cup Range(A)) \ Range(R)

(***************************************************************************)
(* C1  Transition soundness: whenever check_tag_changes(T, A, R, H)        *)
(* returns success, check_tags of the resulting tagset (T \cup A) \ R      *)
(* returns success too.  Stated for T and A made of registered proper tags, *)
(* so that the rules in question are the requirements and conflicts.       *)
(***************************************************************************)
C1_TransitionSoundness ==
    (Called /\ result = Success /\ Range(T) \cup Range(A) \subseteq DOMAIN specs)
        => check_tags(Engine, Resulting) = Success

(***************************************************************************)
(* C2  Role gate on added tags: with every held role registered and A, R   *)
(* disjoint, if A holds a registered proper tag whose needed_roles is      *)
(* non-empty and disjoint from H, the call fails; it fails with            *)
(* MissingRoles(needed_roles) when that tag is the whole change and T is   *)
(* empty (no earlier rule can be violated).                                *)
(***************************************************************************)
GatedAndNotHeld(a) ==
    /\ HasSpec(a)
    /\ specs[a].needed_roles # <<>>
    /\ Range(specs[a].needed_roles) \cap Range(H) = {}

C2_RoleGateOnAdded ==
    (Called /\ PreflightPasses) =>
        \A a \in Range(A) :
            GatedAndNotHeld(a) =>
                /\ result # Success
                /\ (T = <<>> /\ A = <<a>> /\ R = <<>>) =>
                        result = MissingRoles(specs[a].needed_roles)

(***************************************************************************)
(* C3  A tag whose needed_roles is empty is freely changeable: when every  *)
(* registered tag among the added and removed ones has empty needed_roles, *)
(* check_tag_changes does not return MissingRoles, whatever H is.          *)
(***************************************************************************)
C3_EmptyNeededRolesFree ==
    (Called /\ \A x \in Range(A) \cup Range(R) :
                    HasSpec(x) => specs[x].needed_roles = <<>>)
        => result.kind # "MissingRoles"

(***************************************************************************)
(* C4  Conflict with a foreign group: a tag t of T that is not removed and *)
(* declares a conflict with a registered group g it does not belong to     *)
(* tolerates no member of g: when a tag listing g in its groups is         *)
(* effectively present (and g is not itself in R), the call fails; with t  *)
(* first in T, unchanged, without requirements and with g its first        *)
(* conflict, the error is IncompatibleTags(t, g).                          *)
(***************************************************************************)
ForeignGroupConflict(t, g) ==
    /\ HasSpec(t)
    /\ t \notin Range(R)
    /\ Contains(specs[t].conflicting_tags, g)
    /\ is_group(Engine, g)
    /\ ~Contains(specs[t].groups, g)
    /\ g \notin Range(R)
    /\ \E m \in Present : HasSpec(m) /\ Contains(specs[m].groups, g)

C4_ForeignGroupConflict ==
    (Called /\ PreflightPasses /\ Range(T) \cup Range(A) \subseteq DOMAIN specs) =>
        \A t \in Range(T) : \A g \in Names :
            ForeignGroupConflict(t, g) =>
                /\ result # Success
                /\ (T[1] = t /\ t \notin Range(A)
                        /\ specs[t].required_tags = <<>>
                        /\ specs[t].conflicting_tags[1] = g)
                    => result = IncompatibleTags(t, g)

(***************************************************************************)
(* C5  Swapping the member of a one-at-a-time group: T contains t1, the    *)
(* change is R = [t1], A = [t2], both tags belong to the registered group  *)
(* g and declare it as a conflict, neither needs a role, and the resulting *)
(* tagset is valid: then check_tag_changes returns success.                *)
(***************************************************************************)
OneAtATime(t, g) ==
    /\ HasSpec(t)
    /\ is_group(Engine, g)
    /\ Contains(specs[t].groups, g)
    /\ Contains(specs[t].conflicting_tags, g)

C5_SwapGroupMember ==
    (Called /\ Range(H) \subseteq roles) =>
        \A t1 \in Range(T) : \A t2 \in Names \ {t1} : \A g \in Names :
            ( /\ R = <<t1>>
              /\ A = <<t2>>
              /\ OneAtATime(t1, g)
              /\ OneAtATime(t2, g)
              /\ specs[t1].needed_roles = <<>>
              /\ specs[t2].needed_roles = <<>>
              /\ check_tags(Engine, Resulting) = Success )
            => result = Success

(***************************************************************************)
(* C6  A removed tag does not satisfy requirements: when the first tag t   *)
(* of T is unchanged and its first requirement is a removed tag x of T, or *)
(* a group whose only listed member among T and A is such an x, the call   *)
(* fails with RequiresTags(t, required_tags of t), the whole list.         *)
(***************************************************************************)
OnlyRemovedProvides(q) ==
    /\ \E x \in Range(T) \cap Range(R) : q = x \/ Contains(specs[x].groups, q)
    /\ \A m \in Present : m # q /\ ~Contains(specs[m].groups, q)

C6_RemovedDoesNotSatisfy ==
    (Called /\ PreflightPasses /\ T # <<>>
            /\ Range(T) \cup Range(A) \subseteq DOMAIN specs) =>
        LET t == T[1]
        IN  ( /\ t \notin Range(A) \cup Range(R)
              /\ specs[t].required_tags # <<>>
              /\ OnlyRemovedProvides(specs[t].required_tags[1]) )
            => result = RequiresTags(t, specs[t].required_tags)

(***************************************************************************)
(* C7  A removed tag's own rules are not held against the change: x is in  *)
(* T and R, a tag y that x declares as conflicting is in A, the actor      *)
(* holds a role needed for y (and, here, one needed for x), and the        *)
(* resulting tagset is valid: then check_tag_changes returns success.      *)
(***************************************************************************)
HoldsRoleFor(t) == Range(specs[t].needed_roles) \cap Range(H) # {}

C7_RemovedTagRulesNotHeld ==
    (Called /\ PreflightPasses /\ Range(T) \cup Range(A) \subseteq DOMAIN specs
            /\ check_tags(Engine, Resulting) = Success) =>
        \A x \in Range(T) \cap Range(R) : \A y \in Range(A) :
            ( /\ Contains(specs[x].conflicting_tags, y)
              /\ HoldsRoleFor(y)
              /\ HoldsRoleFor(x) )
            => result = Success

(***************************************************************************)
(* C8  Group self-tolerance (P7), for any name: a registered proper tag t  *)
(* whose conflicting_tags are all names of its own groups, and which has   *)
(* no requirements, passes check_tags([t]).                                *)
(***************************************************************************)
SelfConflictOnly(t) ==
    /\ HasSpec(t)
    /\ specs[t].required_tags = <<>>
    /\ specs[t].conflicting_tags # <<>>
    /\ \A c \in Range(specs[t].conflicting_tags) : Contains(specs[t].groups, c)

C8_SelfToleranceAnyName ==
    (call.op = "check_tags" /\ Len(T) = 1 /\ SelfConflictOnly(T[1]))
        => result = Success

(***************************************************************************)
(* C8 (amended)  Group self-tolerance for registered groups: if moreover   *)
(* every such conflicting name is registered as a group (in tags, without  *)
(* a spec), check_tags([t]) succeeds.                                      *)
(***************************************************************************)
C8_SelfToleranceRegisteredGroup ==
    ( /\ call.op = "check_tags"
      /\ Len(T) = 1
      /\ SelfConflictOnly(T[1])
      /\ \A c \in Range(specs[T[1]].conflicting_tags) : is_group(Engine, c) )
        => result = Success

C8_Witness ==
    /\ call.op = "check_tags"
    /\ Len(T) = 1
    /\ SelfConflictOnly(T[1])
    /\ \A c \in Range(specs[T[1]].conflicting_tags) : is_group(Engine, c)
    /\ result = Success

(***************************************************************************)
(* C9  Only one tag of a self-conflicting group at a time: two distinct    *)
(* tags of the registered group g that both declare g a conflict, both     *)
(* effectively present (both in T, or one in T and the other in A, neither *)
(* in R), make check_tags / check_tag_changes fail.                        *)
(***************************************************************************)
QueryMade == call.op \in {"check_tags", "check_tag_changes"}

\* the registered groups, and the members of T or A that belong to the
\* one-at-a-time group g and are not removed
Groups == {n \in tags : ~HasSpec(n)}

Rivals(g) ==
    {t \in DOMAIN specs :
        /\ OneAtATime(t, g)
        /\ Contains(T, t) \/ Contains(A, t)
        /\ ~Contains(R, t)}

\* <<t1, t2, g>>: two distinct present tags of the one-at-a-time group g,
\* t1 in T (both in T, or t1 in T and t2 in A)
RivalPairs ==
    UNION { {<<t1, t2, g>> : t1 \in {x \in Rivals(g) : Contains(T, x)},
                             t2 \in Rivals(g)} : g \in Groups }
        \ {<<t, t, g>> : t \in Names, g \in Names}

C9_OnlyOneOfGroup == QueryMade => \A p \in RivalPairs : result # Success

(***************************************************************************)
(* C10  Preflight precedence: if H holds an unregistered role, the result  *)
(* is MissingRole of the first such role, whatever else is wrong;          *)
(* otherwise, if A and R share a tag, the result is                        *)
(* Other("Tag present in both added_tags and removed_tags"), whatever T    *)
(* holds.                                                                  *)
(***************************************************************************)
C10_PreflightPrecedence ==
    Called =>
        IF \E i \in 1..Len(H) : H[i] \notin roles
        THEN \E i \in 1..Len(H) :
                /\ H[i] \notin roles
                /\ \A j \in 1..(i - 1) : H[j] \in roles
                /\ result = MissingRole(H[i])
        ELSE (\E i \in 1..Len(A) : \E j \in 1..Len(R) : A[i] = R[j])
                => result = OtherBothAddedRemoved

C10_Witness ==
    /\ Called
    /\ Len(H) = 2
    /\ H[1] \notin roles
    /\ H[2] \notin roles
    /\ H[1] # H[2]
    /\ Range(A) \cap Range(R) # {}
    /\ result = MissingRole(H[1])

(***************************************************************************)
(* C11  Role gate only on changed tags (P5): check_tags never returns      *)
(* MissingRoles; and when T holds an unchanged tag whose needed_roles is   *)
(* non-empty and disjoint from H, and no tag of A or R has a non-empty     *)
(* needed_roles, check_tag_changes does not return MissingRoles.           *)
(***************************************************************************)
Gated(t) == HasSpec(t) /\ specs[t].needed_roles # <<>>

Changed(t) == Contains(A, t) \/ Contains(R, t)

OnlyUnchangedGated ==
    /\ \E i \in 1..Len(T) :
          Gated(T[i]) /\ ~Changed(T[i]) /\ ~HoldsRoleFor(T[i])
    /\ \A i \in 1..Len(A) : ~Gated(A[i])
    /\ \A i \in 1..Len(R) : ~Gated(R[i])

C11_RoleGateOnlyOnChanged ==
    /\ call.op = "check_tags" => result.kind # "MissingRoles"
    /\ (Called /\ OnlyUnchangedGated) => result.kind # "MissingRoles"

(***************************************************************************)
(* C12  State validation is the trivial transition (P2, P1): check_tags(T) *)
(* returns exactly what check_tag_changes(T, [], [], []) returns, for any  *)
(* T (unregistered names and duplicates included), and both succeed for    *)
(* T = [].                                                                 *)
(***************************************************************************)
TrivialTransition == Called /\ A = <<>> /\ R = <<>> /\ H = <<>>

C12_StateIsTrivialTransition ==
    /\ call.op = "check_tags" =>
          /\ result = check_tag_changes(Engine, T, <<>>, <<>>, <<>>)
          /\ T = <<>> => result = Success
    /\ TrivialTransition =>
          /\ result = check_tags(Engine, T)
          /\ T = <<>> => result = Success

C12_Witness ==
    /\ call.op = "check_tags"
    /\ \E i \in 1..Len(T) : \E j \in 1..Len(T) : i # j /\ T[i] = T[j]
    /\ result.kind = "IncompatibleTags"
    /\ result = check_tag_changes(Engine, T, <<>>, <<>>, <<>>)

(***************************************************************************)
(* C13  Adding an unregistered tag is rejected: with every held role       *)
(* registered and A, R disjoint, if A holds a name without a spec then     *)
(* check_tag_changes does not return success, whatever T is.               *)
(***************************************************************************)
C13_UnregisteredAddedRejected ==
    (Called /\ PreflightPasses) =>
        \A i \in 1..Len(A) : ~HasSpec(A[i]) => result # Success

(***************************************************************************)
(* C14  An unregistered name in the current tagset is rejected: if T holds *)
(* a name without a spec (unregistered, or a group) and the preflight      *)
(* passes, check_tags / check_tag_changes does not return success; and     *)
(* when no registered tag of T can violate a rule (none has requirements   *)
(* or conflicts, and every changed one has no needed_roles or one that is  *)
(* held), the error is MissingTag of a spec-less member of T.              *)
(***************************************************************************)
SpeclessInT == {T[i] : i \in {j \in 1..Len(T) : ~HasSpec(T[j])}}

NoRuleToViolate(t) ==
    /\ specs[t].required_tags = <<>>
    /\ specs[t].conflicting_tags = <<>>
    /\ Changed(t) => (specs[t].needed_roles = <<>> \/ HoldsRoleFor(t))

C14_SpeclessInCurrentRejected ==
    (QueryMade /\ PreflightPasses /\ SpeclessInT # {}) =>
        /\ result # Success
        /\ (\A i \in 1..Len(T) : HasSpec(T[i]) => NoRuleToViolate(T[i])) =>
              (result.kind = "MissingTag" /\ result.tag \in SpeclessInT)

(***************************************************************************)
(* C15  Registry invariant I1 (P8): after any sequence of add_tag,         *)
(* delete_tag, add_group, delete_group, add_role and delete_role calls     *)
(* with arbitrary names, every key of specs is a member of tags.           *)
(***************************************************************************)
C15_SpecsWithinTags == DOMAIN specs \subseteq tags

(***************************************************************************)
(* C16  Deleting an absent name is a no-op: a delete_tag(x) or             *)
(* delete_group(x) with x neither in tags nor in specs, and a              *)
(* delete_role(x) with x not in roles, leave specs, tags and roles as they *)
(* were, lists that mention x included.                                    *)
(***************************************************************************)
Unregistered(x) == x \notin tags /\ x \notin DOMAIN specs

C16_DeleteAbsentNoOp ==
    [][ /\ (call'.op \in {"delete_tag", "delete_group"} /\ Unregistered(call'.tags[1]))
            => UNCHANGED <<specs, tags, roles>>
        /\ (call'.op = "delete_role" /\ call'.held[1] \notin roles)
            => UNCHANGED <<specs, tags, roles>> ]_vars

(***************************************************************************)
(* C17  Dangling-reference prune (P9): right after delete_tag(x) no        *)
(* surviving spec's required_tags or conflicting_tags contains x; right    *)
(* after delete_group(g) no spec's groups contains g; right after          *)
(* delete_role(r) no spec's needed_roles contains r; and each of those     *)
(* lists is the list before the call without that name, the other entries  *)
(* in their order.                                                         *)
(***************************************************************************)
\* list with every occurrence of x taken out, the rest in order
RECURSIVE Without(_, _)
Without(list, x) ==
    IF list = <<>> THEN <<>>
    ELSE IF Head(list) = x THEN Without(Tail(list), x)
    ELSE <<Head(list)>> \o Without(Tail(list), x)

Pruned(before, after, x) == ~Contains(after, x) /\ after = Without(before, x)

C18_CountTagMissingTag ==
    (call.op = "count_tag" /\ \E i \in 1..Len(call.list) : ~HasSpec(call.list[i]))
        => result.err.kind = "MissingTag"

(***************************************************************************)
(* C19  For a list of registered proper tags, count_tag(check, list) is    *)
(* the number of positions i with list[i] = check or check in the groups   *)
(* of list[i]: one per position, once per occurrence, at most Len(list).   *)
(***************************************************************************)
AllRegistered(list) == \A i \in 1..Len(list) : HasSpec(list[i])

Matching(check, list) ==
    {i \in 1..Len(list) : list[i] = check \/ Contains(specs[list[i]].groups, check)}

ListedAsGroup(check, list) ==
    \E i \in 1..Len(list) : Contains(specs[list[i]].groups, check)

C20_CheckTagAnyName ==
    (call.op = "check_tag" /\ AllRegistered(call.list)) =>
        /\ ListedAsGroup(call.check, call.list) => result = OkVal(TRUE)
        /\ HasSpec(call.check) => result = OkVal(Contains(call.list, call.check))

(***************************************************************************)
(* C20 (amended)  Group membership check for registered groups: the first  *)
(* part holds when g is registered as a group (in tags, without a spec);   *)
(* for any name that is not a registered group, a proper tag p included,   *)
(* check_tag is the membership of the name in list.                        *)
(***************************************************************************)
C20_CheckTagRegisteredGroup ==
    (call.op = "check_tag" /\ AllRegistered(call.list)) =>
        /\ (is_group(Engine, call.check) /\ ListedAsGroup(call.check, call.list))
              => result = OkVal(TRUE)
        /\ ~is_group(Engine, call.check)
              => result = OkVal(Contains(call.list, call.check))

C20_Witness ==
    /\ call.op = "check_tag"
    /\ call.list # <<>>
    /\ AllRegistered(call.list)
    /\ is_group(Engine, call.check)
    /\ ~Contains(call.list, call.check)
    /\ ListedAsGroup(call.check, call.list)
    /\ result = OkVal(TRUE)

(***************************************************************************)
(* Vocabulary of the ordering properties: what the evaluation of one tag   *)
(* of T must report, spelled out loop pass by loop pass.                   *)
(***************************************************************************)
Least(S) == CHOOSE i \in S : \A j \in S : i <= j

\* the role gate applies to t and no held role is among its needed roles
GateFails(t) ==
    /\ t \in Range(A) \cup Range(R)
    /\ Range(H) \cap Range(specs[t].needed_roles) = {}

\* the positions of required_tags / conflicting_tags whose pass fails
FailingRequirements(t) ==
    {j \in 1..Len(specs[t].required_tags) :
        requirement_at(Engine, specs[t], T, A, R, j) # Success}

FailingConflicts(t) ==
    {j \in 1..Len(specs[t].conflicting_tags) :
        conflict_at(Engine, specs[t], T, A, R, j) # Success}

\* what the evaluation of t reports: a missing spec, else the role gate,
\* else the first failing requirement, else the first failing conflict
Expected(t) ==
    IF ~HasSpec(t) THEN MissingTag(t)
    ELSE IF GateFails(t) THEN MissingRoles(specs[t].needed_roles)
    ELSE IF FailingRequirements(t) # {}
         THEN requirement_at(Engine, specs[t], T, A, R, Least(FailingRequirements(t)))
    ELSE IF FailingConflicts(t) # {}
         THEN conflict_at(Engine, specs[t], T, A, R, Least(FailingConflicts(t)))
    ELSE Success

\* the positions of T whose evaluation fails
Failing == {i \in 1..Len(T) : Expected(T[i]) # Success}

(***************************************************************************)
(* C24  Fail-fast ordering: after a passing preflight, the error returned  *)
(* by check_tag_changes is the one of the earliest tag in the order of T   *)
(* whose evaluation fails; within that tag the role gate (MissingRoles)    *)
(* comes before the requirements (RequiresTags), the requirements before   *)
(* the conflicts (IncompatibleTags), each list in its declared order.      *)
(***************************************************************************)
C24_FailFastOrdering ==
    (Called /\ PreflightPasses /\ Failing # {})
        => result = Expected(T[Least(Failing)])

\* two tags of T fail with different errors, and the earlier one fails its
\* role gate and a requirement at once
C24_Witness ==
    /\ Called /\ PreflightPasses
    /\ \E i, j \in Failing :
          /\ i = Least(Failing) /\ i < j
          /\ Expected(T[i]) # Expected(T[j])
          /\ HasSpec(T[i]) /\ GateFails(T[i]) /\ FailingRequirements(T[i]) # {}
    /\ result.kind = "MissingRoles"

(***************************************************************************)
(* C28  The verdict is a function of sets: whether check_tag_changes       *)
(* succeeds depends only on the sets of names in T, A, R and H.  Stated    *)
(* against the query with the repeats inside T and inside A dropped: it    *)
(* has the same four sets, so the same verdict.                            *)
(***************************************************************************)
C28_VerdictOfSets ==
    Called =>
        ((result = Success) <=>
         (check_tag_changes(Engine, Dedup(T), Dedup(A), R, H) = Success))

\* `list` with the entries at positions i and i + 1 exchanged
Exchange(list, i) ==
    [k \in 1..Len(list) |->
        IF k = i THEN list[i + 1] ELSE IF k = i + 1 THEN list[i] ELSE list[k]]

Exchanges(list) == {Exchange(list, i) : i \in 1..(Len(list) - 1)}

\* the queries one exchange of neighbours away from the query made; such
\* exchanges generate every permutation of each list
Permuted ==
    {[tags |-> t, added |-> A, removed |-> R, held |-> H] : t \in Exchanges(T)}
    \cup {[tags |-> T, added |-> a, removed |-> R, held |-> H] : a \in Exchanges(A)}
    \cup {[tags |-> T, added |-> A, removed |-> r, held |-> H] : r \in Exchanges(R)}
    \cup {[tags |-> T, added |-> A, removed |-> R, held |-> h] : h \in Exchanges(H)}

(***************************************************************************)
(* C28 (amended)  The verdict does not depend on the order of the lists:   *)
(* permuting T, A, R or H never turns success into failure or failure into *)
(* success.  (The number of times a name occurs in T and A does count.)    *)
(***************************************************************************)
C28_VerdictOfPermutation ==
    Called =>
        \A q \in Permuted :
            (result = Success) <=>
            (check_tag_changes(Engine, q.tags, q.added, q.removed, q.held) = Success)

\* a failing query of two different tags of which exactly one fails: the
\* verdict must not depend on where in T the failing tag stands
C28_Witness ==
    /\ Called /\ PreflightPasses
    /\ Len(T) >= 2 /\ T[1] # T[2]
    /\ Cardinality(Failing) = 1
    /\ result # Success

(***************************************************************************)
(* Vocabulary of the reconciler properties.                                *)
(***************************************************************************)
\* the last call was Configuration::apply of the configuration Applied
WasApplied == call.op = "apply"
Applied == call.config

\* the tag names and the group names the configuration c writes down
ConfiguredTags(c) == {c.tags[i].name : i \in 1..Len(c.tags)}
ConfiguredGroups(c) ==
    UNION {Range(unwrap_or_new(c.tags[i].groups)) : i \in 1..Len(c.tags)}

\* no two records of c carry the same name
DistinctNames(c) ==
    \A i, j \in 1..Len(c.tags) : c.tags[i].name = c.tags[j].name => i = j

\* Engine::default()
Fresh == [specs |-> <<>>, tags |-> {}, roles |-> {}]

(***************************************************************************)
(* C21  The reconciler never deletes groups: every name that is a group    *)
(* (in tags, without spec) before Configuration::apply is still a group    *)
(* after it, whatever the configuration; the names apply removes from tags *)
(* are proper tags absent from the configuration.                          *)
(***************************************************************************)
C21_GroupsSurviveApply ==
    [][(call'.op = "apply") =>
          /\ \A g \in Names :
                (g \in tags /\ g \notin DOMAIN specs)
                    => (g \in tags' /\ g \notin DOMAIN specs')
          /\ \A n \in tags \ tags' :
                n \in DOMAIN specs /\ n \notin ConfiguredTags(call'.config)]_vars

(***************************************************************************)
(* C22  Reconciliation reaches the declared state: when apply completes    *)
(* without failure, the roles are exactly the configured role names, the   *)
(* keys of specs exactly the configured tag names, and the four lists of   *)
(* each configured tag equal the lists of its record, in the given order   *)
(* (an omitted field giving an empty list).  Stated for configurations     *)
(* whose records carry different names.                                    *)
(***************************************************************************)
C22_ReachesDeclaredState ==
    (WasApplied /\ result = Success /\ DistinctNames(Applied))
        => /\ roles = Range(Applied.roles)
           /\ DOMAIN specs = ConfiguredTags(Applied)
           /\ \A i \in 1..Len(Applied.tags) :
                LET config == Applied.tags[i]
                IN  /\ config.name \in DOMAIN specs
                    /\ specs[config.name].required_tags = unwrap_or_new(config.requires)
                    /\ specs[config.name].conflicting_tags
                           = unwrap_or_new(config.conflicts_with)
                    /\ specs[config.name].groups = unwrap_or_new(config.groups)
                    /\ specs[config.name].needed_roles = unwrap_or_new(config.roles)

\* every name the records of c require or conflict with is a configured tag
\* or a group written in the groups of some record of c
ReferencesDeclared(c) ==
    \A i \in 1..Len(c.tags) :
        Range(unwrap_or_new(c.tags[i].requires))
            \cup Range(unwrap_or_new(c.tags[i].conflicts_with))
        \subseteq ConfiguredTags(c) \cup ConfiguredGroups(c)

\* the record at position i of c lists a group of its own as a conflict
SelfConflicting(c, i) ==
    Range(unwrap_or_new(c.tags[i].groups))
        \cap Range(unwrap_or_new(c.tags[i].conflicts_with)) # {}

(***************************************************************************)
(* C25  Groups are registered automatically as the configuration is        *)
(* applied: apply on any registry completes successfully whenever every    *)
(* name in a record's requires / conflicts_with is a configured tag or a   *)
(* group named in some record's groups, whatever the order of the records; *)
(* afterwards check_tags([t]) succeeds for a tag t that lists its own      *)
(* group in groups and conflicts_with.  Stated for configurations that     *)
(* declare every role name, so that no record names an undeclared role.    *)
(***************************************************************************)
C25_GroupsRegisteredAsEncountered ==
    (WasApplied /\ ReferencesDeclared(Applied) /\ Range(Applied.roles) = RoleNames)
        => /\ result = Success
           /\ \A i \in 1..Len(Applied.tags) :
                SelfConflicting(Applied, i)
                    => check_tags(Engine, <<Applied.tags[i].name>>) = Success

(***************************************************************************)
(* C26  Reconciliation is idempotent: after apply(c) completed             *)
(* successfully, applying c again at once completes successfully too and   *)
(* leaves tags, roles and every spec as they were.                         *)
(***************************************************************************)
C26_ApplyIdempotent ==
    (WasApplied /\ result = Success)
        => apply(Applied, Engine) = Outcome(Engine, Success)

(***************************************************************************)
(* C27  The outcome of reconciliation depends only on the configuration:   *)
(* on any two registries apply(c) fails on both or succeeds on both with   *)
(* the same tags, roles and specs.  Stated for the registry apply was      *)
(* called on and the registry of Engine::default().                        *)
(***************************************************************************)
C27_OutcomeOfConfigurationOnly ==
    WasApplied =>
        /\ (result = Success) <=> (apply(Applied, Fresh).err = Success)
        /\ (result = Success) => Engine = apply(Applied, Fresh).engine

(***************************************************************************)
(* Vocabulary of the failure properties.                                   *)
(***************************************************************************)
\* the lookups and queries that return a Result
QueryOps ==
    {"get_spec", "get_spec_mut", "get_tag", "get_role",
     "count_tag", "check_tag", "check_tags", "check_tag_changes"}

\* `res` is an error: the Err of a Result, or an error on its own
Failure(res) ==
    IF "err" \in DOMAIN res THEN res.err # Success ELSE res # Success

(***************************************************************************)
(* C23  No failing operation mutates the registry: after every public      *)
(* operation that ends in an error or failure (get_spec, get_spec_mut,     *)
(* get_tag, get_role, count_tag, check_tag, check_tags, check_tag_changes, *)
(* and Configuration::apply failing while resolving a name) tags, roles    *)
(* and specs are what they were before the call.                           *)
(***************************************************************************)
C23_NoFailingOperationMutates ==
    [][((call'.op \in QueryOps \cup {"apply"}) /\ Failure(result'))
          => (specs' = specs /\ tags' = tags /\ roles' = roles)]_vars

(***************************************************************************)
(* C23 (amended)  No failing lookup or query mutates the registry: after   *)
(* get_spec, get_spec_mut, get_tag, get_role, count_tag, check_tag,        *)
(* check_tags or check_tag_changes returned an error, tags, roles and      *)
(* specs are what they were before the call.  (Configuration::apply that   *)
(* fails while resolving a name has already changed the registry.)         *)
(***************************************************************************)
C23_NoFailingQueryMutates ==
    [][((call'.op \in QueryOps) /\ Failure(result'))
          => (specs' = specs /\ tags' = tags /\ roles' = roles)]_vars

\* get_spec_mut has failed on a name that is registered (a group)
C23_Witness ==
    /\ call.op = "get_spec_mut"
    /\ Failure(result)
    /\ call.tags[1] \in tags

=============================================================================
